---- MODULE Spec2Model ----
(***************************************************************************)
(* News monitor (app.py): link extraction with ordered selector fallback   *)
(* (fetch_links) and per-source snapshot diffing ("Check now" handler).    *)
(*                                                                         *)
(* Representation.                                                         *)
(*  - A monitored URL is kept in parsed form, a record                     *)
(*    [scheme, netloc, path]; urlparse(url).netloc is its netloc field.    *)
(*    The empty text input "" is the record EmptyUrl.                      *)
(*  - A DOM node matched by a selector is [innerText, href]; innerText is  *)
(*    a sequence of characters so that trim() is computed, href is the     *)
(*    resolved absolute url ("" when the anchor has none).                 *)
(*  - A remote page is [ok, dom]: ok = FALSE means that navigation or the  *)
(*    browser session raises inside fetch_links' outer try; dom maps each  *)
(*    selector to [raises, nodes], the outcome of eval_on_selector_all.    *)
(*  - monitor_state.json is state_file; the dict loaded from it at the     *)
(*    start of a script run and mutated by the loop is state.              *)
(*  - st.session_state["new_articles"] is assigned new_articles_global at  *)
(*    the end of a round; new_articles_global keeps that value while idle. *)
(***************************************************************************)
EXTENDS Integers, Sequences, FiniteSets, TLC

VARIABLES
    urls,                 \* monitored_urls.json / the list `urls`
    state_file,           \* monitor_state.json (durable snapshot store)
    state,                \* the dict `state` of the running script
    pc,                   \* "idle" | "checking" | "extract" | "extracted"
    i,                    \* 1-based position of the for loop over urls
    articles,             \* result of the latest fetch_links call
    new_articles,         \* `new_articles` of the latest loop iteration
    new_articles_global,  \* accumulator of the round
    page,                 \* remote page served to the latest fetch_links call
    tried,                \* number of selectors queried by the latest call
    scrape_error,         \* TRUE iff the latest call ended in st.error(...)
    url,                  \* argument of the latest fetch_links call
    last_fetch,           \* history: source -> outcome of its latest check
    last_good,            \* history: source -> url set of last non-empty list
    same_again            \* history: the latest check was served the list of the one before

vars == <<urls, state_file, state, pc, i, articles, new_articles,
          new_articles_global, page, tried, scrape_error, url,
          last_fetch, last_good, same_again>>

-----------------------------------------------------------------------------
(* Bounds of the model *)

\* longest list of DOM matches a selector returns (must exceed ARTICLE_CAP)
MaxMatches == 12

\* match lists start at url number 1..MaxStart of UrlPool
MaxStart == 2

-----------------------------------------------------------------------------
(* Program constants *)

\* articles = articles[:10]
ARTICLE_CAP == 10

SITE_SELECTORS ==
    [d \in {"apnews.com", "news.sky.com", "www.npr.org", "www.upi.com",
            "nypost.com", "www.huffpost.com", "www.scmp.com"} |->
        CASE d = "apnews.com"       -> <<"a[href^='https://apnews.com/article/']">>
          [] d = "news.sky.com"     -> <<"a.sdc-site-tile__headline-link">>
          [] d = "www.npr.org"      -> <<"h2.title a">>
          [] d = "www.upi.com"      -> <<"a[href*='/Odd_News/']">>
          [] d = "nypost.com"       -> <<"a[href*='/weird-but-true/']">>
          [] d = "www.huffpost.com" -> <<"a[href*='/entry/']", "a[href*='/weird-news/']">>
          [] d = "www.scmp.com"     -> <<"a[href*='/offbeat/']">>]

GENERIC_SELECTORS ==
    <<"a[href*='/article']", "a[href*='/story/']", "a[href*='/weird']",
      "a[href*='/Odd_News']", "a[href*='/offbeat']", "h3 a", "article a">>

Range(s) == {s[k] : k \in DOMAIN s}

AllSelectors ==
    UNION {Range(SITE_SELECTORS[d]) : d \in DOMAIN SITE_SELECTORS}
        \cup Range(GENERIC_SELECTORS)

-----------------------------------------------------------------------------
(* Inputs: monitored URLs, article urls, DOM match lists, pages *)

EmptyUrl == [scheme |-> "", netloc |-> "", path |-> ""]
HuffUrl  == [scheme |-> "https", netloc |-> "www.huffpost.com", path |-> "/weird-news"]
BlogUrl  == [scheme |-> "https", netloc |-> "example.com", path |-> "/news"]
ApUrl    == [scheme |-> "https", netloc |-> "apnews.com", path |-> "/oddities"]

\* URLs the user may register
Sources == {HuffUrl, BlogUrl}

\* URLs fetch_links is applied to in SpecFetch
FetchUrls == {HuffUrl, BlogUrl, ApUrl}

UrlPool == <<"u1", "u2", "u3", "u4", "u5", "u6", "u7", "u8", "u9", "u10",
             "u11", "u12", "u13">>

Whitespace == {" "}

Shapes == {"plain", "swap", "blank", "gaps"}

\* k-th DOM node of a match list that starts at pool position s.
\*   plain: consecutive distinct urls; odd nodes have padded text
\*   swap : urls s+1, s, s+1, s, ... (repeated urls, differing titles)
\*   blank: every node's text is whitespace only
\*   gaps : every even node has no href
NodeAt(s, k, shape) ==
    LET idx == IF shape = "swap" THEN s + (k % 2)
               ELSE ((s + k - 2) % Len(UrlPool)) + 1
        txt == IF shape = "blank" THEN <<" ", " ">>
               ELSE IF k % 2 = 1 THEN <<" ", "A", " ">> ELSE <<"B">>
        ref == IF shape = "gaps" /\ k % 2 = 0 THEN "" ELSE UrlPool[idx]
    IN  [innerText |-> txt, href |-> ref]

NodeList(s, n, shape) == [k \in 1..n |-> NodeAt(s, k, shape)]

Lens == {0, 2, 3, MaxMatches}

NoMatch == [raises |-> FALSE, nodes |-> <<>>]
Raises  == [raises |-> TRUE, nodes |-> <<>>]
Matches(l) == [raises |-> FALSE, nodes |-> l]

\* A page where selector a matches la, selector b matches lb, the selectors
\* in errs raise, and every other selector matches nothing.
PageOf(a, la, b, lb, errs) ==
    [ok  |-> TRUE,
     dom |-> [sel \in AllSelectors |->
                IF sel \in errs THEN Raises
                ELSE IF sel = a THEN Matches(la)
                ELSE IF sel = b THEN Matches(lb)
                ELSE NoMatch]]

\* navigation / timeout / browser-session failure
FetchError == [ok |-> FALSE, dom |-> [sel \in AllSelectors |-> NoMatch]]

NoPage == FetchError

Decoy == NodeList(MaxStart + 2, 2, "plain")


\* DOM match lists served in a monitoring round
MainLists ==
    {NodeList(s, n, shape) :
        s \in 1..MaxStart, n \in {0, 2, MaxMatches}, shape \in {"plain", "swap"}}

\* Pages the remote sites serve during a monitoring round
Pages ==
    {FetchError}
    \cup {PageOf("h3 a", l, "article a", <<>>, {}) : l \in MainLists}
    \cup {PageOf("a[href*='/entry/']", NodeList(1, 3, "gaps"), "h3 a", Decoy, {}),
          PageOf("article a", NodeList(2, 2, "plain"), "h3 a", NodeList(1, 2, "blank"),
                 {"a[href*='/article']"})}

\* Selectors that can apply to a URL of FetchUrls
ProbeSelectors ==
    UNION {Range(SITE_SELECTORS[u.netloc]) :
              u \in {v \in FetchUrls : v.netloc \in DOMAIN SITE_SELECTORS}}
        \cup Range(GENERIC_SELECTORS)

RichLists ==
    {NodeList(s, n, shape) : s \in 1..MaxStart, n \in Lens, shape \in Shapes}

ErrSets == {{}, AllSelectors} \cup {{e} : e \in ProbeSelectors}

\* Pages fetch_links is applied to in SpecFetch
RichPages ==
    {FetchError}
    \cup {PageOf(a, la, b, Decoy, errs) :
            a \in ProbeSelectors, la \in RichLists, b \in ProbeSelectors,
            errs \in ErrSets}

-----------------------------------------------------------------------------
(* fetch_links *)

RECURSIVE LStrip(_)
LStrip(s) ==
    IF s # <<>> /\ Head(s) \in Whitespace THEN LStrip(Tail(s)) ELSE s

RECURSIVE RStrip(_)
RStrip(s) ==
    IF s # <<>> /\ s[Len(s)] \in Whitespace
    THEN RStrip(SubSeq(s, 1, Len(s) - 1)) ELSE s

\* a.innerText.trim()
Trim(s) == RStrip(LStrip(s))

\* x => x.title && x.url
Survives(x) == x.title # <<>> /\ x.url # ""

\* nodes.map(a => ({title, url})).filter(x => x.title && x.url)
EvalOnSelectorAll(nodes) ==
    LET mapped == [k \in DOMAIN nodes |->
                      [title |-> Trim(nodes[k].innerText), url |-> nodes[k].href]]
    IN  SelectSeq(mapped, Survives)

\* selectors = SITE_SELECTORS.get(domain, []) + GENERIC_SELECTORS
BuildSelectorsGenericFirst(domain) ==
    GENERIC_SELECTORS \o
        (IF domain \in DOMAIN SITE_SELECTORS THEN SITE_SELECTORS[domain] ELSE <<>>)

BuildSelectors(domain) ==
    (IF domain \in DOMAIN SITE_SELECTORS THEN SITE_SELECTORS[domain] ELSE <<>>)
        \o GENERIC_SELECTORS

\* the loop `for sel in selectors`, from position k on: a query that raises
\* is skipped (except: continue), the first non-empty `links` ends the loop
RECURSIVE ScanRulesAbortOnError(_, _, _)
ScanRulesAbortOnError(pg, selectors, k) ==
    IF k > Len(selectors) THEN [articles |-> <<>>, tried |-> Len(selectors)]
    ELSE LET q == pg.dom[selectors[k]]
         IN  IF q.raises THEN [articles |-> <<>>, tried |-> k]
             ELSE LET links == EvalOnSelectorAll(q.nodes)
                  IN  IF links # <<>> THEN [articles |-> links, tried |-> k]
                      ELSE ScanRulesAbortOnError(pg, selectors, k + 1)

RECURSIVE ScanRules(_, _, _)
ScanRules(pg, selectors, k) ==
    IF k > Len(selectors) THEN [articles |-> <<>>, tried |-> Len(selectors)]
    ELSE LET q == pg.dom[selectors[k]]
         IN  IF q.raises THEN ScanRules(pg, selectors, k + 1)
             ELSE LET links == EvalOnSelectorAll(q.nodes)
                  IN  IF links # <<>> THEN [articles |-> links, tried |-> k]
                      ELSE ScanRules(pg, selectors, k + 1)

Min(a, b) == IF a < b THEN a ELSE b

\* articles = articles[:10]
TruncateNot(arts) == arts

Truncate(arts) == SubSeq(arts, 1, Min(Len(arts), ARTICLE_CAP))

\* fetch_links(url) against the page pg the site serves
fetch_links(u, pg) ==
    IF ~pg.ok
    THEN [articles |-> <<>>, tried |-> 0, error |-> TRUE]
    ELSE LET r == ScanRules(pg, BuildSelectors(u.netloc), 1)
         IN  [articles |-> Truncate(r.articles), tried |-> r.tried, error |-> FALSE]

-----------------------------------------------------------------------------
(* Persistence and the "Add URL" / "Check now" handlers *)

EmptyDict == [x \in {} |-> <<>>]

Put(d, k, v) == [x \in DOMAIN d \cup {k} |-> IF x = k THEN v ELSE d[x]]

\* list(current_urls): a list holding each url of the set once. Python leaves
\* the order unspecified; the list is only ever read back through set(...),
\* so the pool order is used.
RECURSIVE ListOfFrom(_, _)
ListOfFrom(S, k) ==
    IF k > Len(UrlPool) THEN <<>>
    ELSE (IF UrlPool[k] \in S THEN <<UrlPool[k]>> ELSE <<>>) \o ListOfFrom(S, k + 1)

ListOf(S) == ListOfFrom(S, 1)

\* set(state[url])
SetOf(l) == Range(l)

\* json.dump followed by a later json.load
save_jsonDropped(old, data) == old

save_json(old, data) == data

load_json(file) == file

\* current_urls = {a["url"] for a in articles}
UrlSet(arts) == {arts[k].url : k \in DOMAIN arts}

\* if not articles: continue
SkipNever(arts) == FALSE

Skip(arts) == arts = <<>>

\* first time seeing this site: new_articles = articles
FirstTimeNewNone(arts) == <<>>

FirstTimeNew(arts) == arts

\* new_urls = current_urls - old_urls
DiffUrlsAll(current_urls, old_urls) == current_urls

DiffUrls(current_urls, old_urls) == current_urls \ old_urls

\* new_articles = [a for a in articles if a["url"] in new_urls]
NewArticlesByUrl(arts, new_urls) ==
    LET first(v) == CHOOSE k \in DOMAIN arts :
                        /\ arts[k].url = v
                        /\ \A j \in 1..(k - 1) : arts[j].url # v
        one(v) == IF v \in new_urls THEN <<arts[first(v)]>> ELSE <<>>
        F[k \in 0..Len(UrlPool)] ==
            IF k = 0 THEN <<>> ELSE F[k - 1] \o one(UrlPool[k])
    IN  F[Len(UrlPool)]

NewArticles(arts, new_urls) ==
    LET InNew(a) == a.url \in new_urls IN SelectSeq(arts, InNew)

\* state[url] = list(current_urls)
NewSnapshotUnion(old_urls, current_urls) == ListOf(old_urls \cup current_urls)

NewSnapshot(old_urls, current_urls) == ListOf(current_urls)

\* position of the loop after an iteration that hit `continue`
AfterSkipBreak(k, n) == n + 1

AfterSkip(k, n) == k + 1

Init ==
    /\ urls = <<>>
    /\ state_file = EmptyDict
    /\ state = EmptyDict
    /\ pc = "idle"
    /\ i = 1
    /\ articles = <<>>
    /\ new_articles = <<>>
    /\ new_articles_global = <<>>
    /\ page = NoPage
    /\ tried = 0
    /\ scrape_error = FALSE
    /\ url = EmptyUrl
    /\ last_fetch = EmptyDict
    /\ last_good = EmptyDict
    /\ same_again = FALSE

\* if st.button("Add URL"): ... (a script run: urls and state are reloaded)
AddURL ==
    /\ pc = "idle"
    /\ \E new_url \in Sources \cup {EmptyUrl} :
          urls' = IF new_url # EmptyUrl /\ new_url \notin Range(urls)
                  THEN Append(urls, new_url)
                  ELSE urls
    /\ state' = load_json(state_file)
    /\ UNCHANGED <<state_file, pc, i, articles, new_articles, new_articles_global,
                   page, tried, scrape_error, url, last_fetch, last_good, same_again>>

\* if st.button("Check now"): new_articles_global = []
CheckStart ==
    /\ pc = "idle"
    /\ pc' = "checking"
    /\ i' = 1
    /\ state' = load_json(state_file)
    /\ new_articles_global' = <<>>
    /\ UNCHANGED <<urls, state_file, articles, new_articles, page, tried,
                   scrape_error, url, last_fetch, last_good, same_again>>

\* one iteration of `for url in urls`
CheckSource ==
    /\ pc = "checking"
    /\ i <= Len(urls)
    /\ \E pg \in Pages : \E r \in {fetch_links(urls[i], pg)} :
         LET u == urls[i]
             current_urls == UrlSet(r.articles)
         IN  /\ url' = u
             /\ page' = pg
             /\ articles' = r.articles
             /\ tried' = r.tried
             /\ scrape_error' = r.error
             /\ IF Skip(r.articles)
                THEN /\ i' = AfterSkip(i, Len(urls))
                     /\ UNCHANGED <<state, new_articles, new_articles_global>>
                ELSE /\ i' = i + 1
                     /\ IF u \notin DOMAIN state
                        THEN /\ new_articles' = FirstTimeNew(r.articles)
                             /\ state' = Put(state, u, ListOf(current_urls))
                        ELSE LET old_urls == SetOf(state[u])
                                 new_urls == DiffUrls(current_urls, old_urls)
                             IN  /\ new_articles' = NewArticles(r.articles, new_urls)
                                 /\ state' = Put(state, u, NewSnapshot(old_urls, current_urls))
                     /\ new_articles_global' = new_articles_global \o new_articles'
             \* history of what the sites served
             /\ last_fetch' = Put(last_fetch, u, [articles |-> r.articles, error |-> r.error])
             /\ last_good' = IF r.articles # <<>> THEN Put(last_good, u, current_urls)
                             ELSE last_good
             /\ same_again' = /\ u \in DOMAIN last_fetch
                              /\ ~last_fetch[u].error
                              /\ ~r.error
                              /\ last_fetch[u].articles = r.articles
    /\ UNCHANGED <<urls, state_file, pc>>

\* after the loop: save_json(STATE_FILE, state); the round's report is
\* new_articles_global
CheckFinish ==
    /\ pc = "checking"
    /\ i > Len(urls)
    /\ state_file' = save_json(state_file, state)
    /\ pc' = "idle"
    /\ UNCHANGED <<urls, state, i, articles, new_articles, new_articles_global,
                   page, tried, scrape_error, url, last_fetch, last_good, same_again>>

Next == AddURL \/ CheckStart \/ CheckSource \/ CheckFinish

Spec == Init /\ [][Next]_vars

-----------------------------------------------------------------------------
(* fetch_links applied to one URL and one page *)

InitFetch ==
    /\ urls = <<>>
    /\ state_file = EmptyDict
    /\ state = EmptyDict
    /\ pc = "extract"
    /\ i = 1
    /\ articles = <<>>
    /\ new_articles = <<>>
    /\ new_articles_global = <<>>
    /\ page \in RichPages
    /\ tried = 0
    /\ scrape_error = FALSE
    /\ url \in FetchUrls
    /\ last_fetch = EmptyDict
    /\ last_good = EmptyDict
    /\ same_again = FALSE

Extract ==
    /\ pc = "extract"
    /\ LET r == fetch_links(url, page)
       IN  /\ articles' = r.articles
           /\ tried' = r.tried
           /\ scrape_error' = r.error
    /\ pc' = "extracted"
    /\ UNCHANGED <<urls, state_file, state, i, new_articles, new_articles_global,
                   page, url, last_fetch, last_good, same_again>>

NextFetch == Extract

SpecFetch == InitFetch /\ [][NextFetch]_vars

-----------------------------------------------------------------------------
(* Properties *)

\* a step that runs one iteration of the loop over urls (it checks urls[i])
SourceStep == pc = "checking" /\ i' # i

\* the state right after an iteration of the loop: url is the source checked
AfterSource == pc = "checking" /\ i > 1 /\ url = urls[i - 1]

\* the articles of arts whose url is not in the set S, in the order of arts
NotIn(arts, S) == SelectSeq(arts, LAMBDA a : a.url \notin S)

\* a stored snapshot read as a set of urls, each url stored once
HoldsExactly(snapshot, C) ==
    /\ Range(snapshot) = C
    /\ Len(snapshot) = Cardinality(C)

Snapshots(d) == [s \in DOMAIN d |-> Range(d[s])]

FirstN(s, n) == [k \in 1..(IF Len(s) < n THEN Len(s) ELSE n) |-> s[k]]

\* rules in the order the design fixes: the site's own rules, then the generic
RuleOrder(u) ==
    (IF u.netloc \in DOMAIN SITE_SELECTORS THEN SITE_SELECTORS[u.netloc] ELSE <<>>)
        \o GENERIC_SELECTORS

\* surviving matches of one rule on a page; a rule whose query raises has none
Surviving(pg, sel) ==
    IF pg.dom[sel].raises THEN <<>>
    ELSE SelectSeq([k \in DOMAIN pg.dom[sel].nodes |->
                       [title |-> Trim(pg.dom[sel].nodes[k].innerText),
                        url |-> pg.dom[sel].nodes[k].href]],
                   LAMBDA x : x.title # <<>> /\ x.url # "")

Hits(u, pg) == {k \in DOMAIN RuleOrder(u) : Surviving(pg, RuleOrder(u)[k]) # <<>>}

Winner(u, pg) == CHOOSE k \in Hits(u, pg) : \A j \in Hits(u, pg) : k <= j

\* C1: for a source that has a stored snapshot S, a check whose extraction
\* is non-empty with url set C reports exactly the fresh articles whose url
\* is in C \ S, in extraction order, and then stores C (not S \cup C).
C1_DiffAndReplace ==
    [][ (SourceStep /\ urls[i] \in DOMAIN state /\ articles' # <<>>) =>
          LET S == Range(state[urls[i]])
              C == UrlSet(articles')
          IN  /\ new_articles' = NotIn(articles', S)
              /\ new_articles_global' = new_articles_global \o NotIn(articles', S)
              /\ urls[i] \in DOMAIN state'
              /\ HoldsExactly(state'[urls[i]], C) ]_vars

C1_Witness ==
    /\ AfterSource
    /\ url \in DOMAIN state_file
    /\ articles # <<>>
    /\ new_articles # <<>>
    /\ new_articles # articles
    /\ Len(new_articles) > Cardinality(UrlSet(new_articles))
    /\ Range(state[url]) # Range(state_file[url]) \cup UrlSet(articles)

\* C2: for a source with no stored snapshot, a check whose extraction is
\* non-empty reports every extracted article as new and stores the set of
\* extracted urls as the snapshot.
C2_FirstSeenAllNew ==
    [][ (SourceStep /\ urls[i] \notin DOMAIN state /\ articles' # <<>>) =>
          /\ new_articles' = articles'
          /\ new_articles_global' = new_articles_global \o articles'
          /\ urls[i] \in DOMAIN state'
          /\ HoldsExactly(state'[urls[i]], UrlSet(articles')) ]_vars

C2_Witness ==
    /\ AfterSource
    /\ url \notin DOMAIN state_file
    /\ url \in DOMAIN state
    /\ articles # <<>>
    /\ new_articles = articles
    /\ new_articles_global = articles

\* C3: when the extraction for a source is empty, the check of that source
\* reports nothing and leaves the snapshot as it was (absent stays absent,
\* an existing snapshot is kept).
C3_EmptySkips ==
    [][ (SourceStep /\ articles' = <<>>) =>
          /\ new_articles_global' = new_articles_global
          /\ state' = state
          /\ state_file' = state_file ]_vars

C3_Witness ==
    /\ AfterSource
    /\ articles = <<>>
    /\ ~scrape_error
    /\ url \in DOMAIN state
    /\ state[url] # <<>>
    /\ \E s \in Range(urls) : s \notin DOMAIN state /\ s \in DOMAIN last_fetch

\* C4: the snapshot of each source is the url set of that source's most
\* recent non-empty extraction, and absent if it never had one (in the
\* running script always, in the durable store whenever no round is running);
\* a check of one source changes no other source's snapshot.
C4_SnapshotIsLatest ==
    /\ [](/\ Snapshots(state) = last_good
          /\ (pc = "idle" => Snapshots(state_file) = last_good))
    /\ [][ SourceStep =>
             /\ DOMAIN state' \subseteq DOMAIN state \cup {urls[i]}
             /\ \A s \in DOMAIN state \ {urls[i]} :
                   s \in DOMAIN state' /\ state'[s] = state[s] ]_vars

C4_Witness ==
    /\ pc = "idle"
    /\ Len(urls) = 2
    /\ DOMAIN state_file = Range(urls)
    /\ \A s \in Range(urls) : last_fetch[s].articles = <<>>
    /\ state_file[urls[1]] # state_file[urls[2]]
    /\ page.ok

\* C5: fetch_links never returns more than 10 entries; what it returns is the
\* first 10 surviving matches of the winning rule in DOM order; hence every
\* stored snapshot has at most 10 urls.
C5_AtMostTen ==
    /\ Len(articles) <= 10
    /\ (url # EmptyUrl /\ page.ok /\ Hits(url, page) # {}) =>
          articles = FirstN(Surviving(page, RuleOrder(url)[Winner(url, page)]), 10)
    /\ \A s \in DOMAIN state : Len(state[s]) <= 10
    /\ \A s \in DOMAIN state_file : Len(state_file[s]) <= 10

C5_Witness ==
    /\ AfterSource
    /\ page.ok
    /\ Hits(url, page) # {}
    /\ Len(Surviving(page, RuleOrder(url)[Winner(url, page)])) > 10
    /\ Len(articles) = 10
    /\ Cardinality(Range(state[url])) = 10

\* C6: fetch_links tries the site's rules in configured order, then the
\* generic rules in configured order, and returns the matches of the first
\* rule with a non-empty surviving result (cut to 10); no later rule is
\* queried, nothing is merged; with no such rule it returns the empty list.
C6_FirstRuleWins ==
    (pc = "extracted" /\ page.ok) =>
        IF Hits(url, page) = {}
        THEN articles = <<>> /\ tried = Len(RuleOrder(url))
        ELSE /\ articles = FirstN(Surviving(page, RuleOrder(url)[Winner(url, page)]), 10)
             /\ tried = Winner(url, page)

C6_Witness ==
    /\ pc = "extracted"
    /\ url = HuffUrl
    /\ page.ok
    /\ Surviving(page, SITE_SELECTORS["www.huffpost.com"][1]) = <<>>
    /\ Surviving(page, SITE_SELECTORS["www.huffpost.com"][2]) # <<>>
    /\ \E k \in DOMAIN GENERIC_SELECTORS :
          /\ Surviving(page, GENERIC_SELECTORS[k]) # <<>>
          /\ Surviving(page, GENERIC_SELECTORS[k])
                # Surviving(page, SITE_SELECTORS["www.huffpost.com"][2])
    /\ articles = Surviving(page, SITE_SELECTORS["www.huffpost.com"][2])
    /\ tried = 2

\* C7: two checks of one source in succession that are served the same
\* article list: the second reports nothing and leaves the snapshot as the
\* first left it.
C7_RepeatReportsNothing ==
    [][ (/\ SourceStep
         /\ urls[i] \in DOMAIN last_fetch
         /\ ~last_fetch[urls[i]].error
         /\ ~scrape_error'
         /\ articles' = last_fetch[urls[i]].articles) =>
          /\ new_articles_global' = new_articles_global
          /\ state' = state ]_vars

C7_Witness ==
    /\ AfterSource
    /\ same_again
    /\ articles # <<>>
    /\ new_articles = <<>>
    /\ new_articles_global = <<>>
    /\ state[url] = state_file[url]

\* C8: a fetch failure while checking one source does not end the round:
\* that source reports nothing, its snapshot is unchanged, and the loop goes
\* on to the next source; the round ends only past the last source.
C8_FetchFailureSkips ==
    /\ [][ (SourceStep /\ scrape_error') =>
             /\ articles' = <<>>
             /\ new_articles_global' = new_articles_global
             /\ state' = state
             /\ state_file' = state_file
             /\ pc' = "checking"
             /\ i' = i + 1 ]_vars
    /\ [][ (pc = "checking" /\ pc' # "checking") => i = Len(urls) + 1 ]_vars

C8_Witness ==
    /\ AfterSource
    /\ scrape_error
    /\ i <= Len(urls)
    /\ url \in DOMAIN state
    /\ state[url] # <<>>

\* C9 (as claimed): when the fetch of the next source is about to begin, the
\* durable store already holds the snapshot of every source checked so far
\* in the round.
C9_PersistedBeforeNext ==
    (pc = "checking" /\ i > 1 /\ i <= Len(urls)) =>
        \A j \in 1..(i - 1) :
            urls[j] \in DOMAIN state =>
                /\ urls[j] \in DOMAIN state_file
                /\ state_file[urls[j]] = state[urls[j]]

\* C9 (amended): each source completes fetch, extract, diff and the update
\* of its snapshot in the running script's state before the next source is
\* fetched; the durable store is not written during the loop, it is written
\* once, with the whole state, after the last source.
C9_PersistedAfterLoop ==
    /\ [](pc = "checking" =>
            \A j \in 1..(i - 1) :
                last_fetch[urls[j]].articles # <<>> =>
                    /\ urls[j] \in DOMAIN state
                    /\ Range(state[urls[j]]) = UrlSet(last_fetch[urls[j]].articles))
    /\ [][ (pc = "checking" /\ pc' = "checking") => state_file' = state_file ]_vars
    /\ [][ (pc = "checking" /\ pc' = "idle") =>
             /\ i > Len(urls)
             /\ state_file' = state ]_vars

C9_Witness ==
    /\ pc = "checking"
    /\ i = 2
    /\ Len(urls) = 2
    /\ urls[1] \in DOMAIN state
    /\ urls[1] \notin DOMAIN state_file

\* C10: a rule whose DOM query raises counts as a rule with zero results:
\* the call does not fail, and its result is the one the same page gives
\* when that rule matches nothing, so a later rule's matches are returned.
C10_RuleErrorIsNoMatch ==
    (pc = "extracted" /\ page.ok) =>
        /\ ~scrape_error
        /\ \A sel \in Range(RuleOrder(url)) :
              page.dom[sel].raises =>
                  articles =
                      fetch_links(url, [page EXCEPT !.dom[sel] = NoMatch]).articles

C10_Witness ==
    /\ pc = "extracted"
    /\ page.ok
    /\ ~scrape_error
    /\ articles # <<>>
    /\ tried > 1
    /\ \E k \in 1..(tried - 1) : page.dom[RuleOrder(url)[k]].raises

=============================================================================
